---- MODULE Spec2Model ----
(***************************************************************************)
(* A model of the snapshot merger of ICLR2026ReviewTracker (merge.py):     *)
(* merge_reviews, analyze_data and main.                                   *)
(*                                                                         *)
(* Data.  A review entry is a record [id, number, version, mdate]; a       *)
(* submission is [id, number, hasDetails, directReplies]; a snapshot is    *)
(* [date_str, submissions].  The code reads every one of these fields with *)
(* dict.get(field, 0) or tests it for truth, so the value 0 stands for     *)
(* "absent" as well as for 0 (and for the empty string of an id): the code *)
(* cannot tell them apart.  `number` of a submission also stands for the   *)
(* rest of its scalar metadata (title, venue, ...): merge_reviews copies   *)
(* the record whole and reads nothing else of it.  hasDetails says whether *)
(* the record has a 'details' key.  A Python dict is modelled as a         *)
(* sequence of [k, v] pairs in insertion order, which is the order a dict  *)
(* iterates in.                                                            *)
(***************************************************************************)
EXTENDS Integers, Sequences, FiniteSets, TLC

\* ------------------------------------------------------------------ bounds
MaxSnapshots == 2      \* snapshots in the list handed to merge_reviews (scope "long")
MaxSubs == 2           \* submission records of one snapshot (scope "wide")
MaxReviews == 3        \* review entries of one submission record (scope "deep")
MaxCrawls == 2         \* snapshot files crawl.py leaves in data/raw
MaxRuns == 2           \* runs of main() over one data directory
MaxReplies == 3        \* entries of the directReplies list the site classifies
MaxPages == 2          \* non-empty pages the server holds for the crawler
MaxRetries == 2        \* failed requests told apart in the crawler's history
MaxVersions == 2       \* generations of the site the server goes through
MaxLoads == 3          \* calls of PapersCache.loadPapers

\* The sentinel chronokey 'merged'.  Chronokeys are compared as strings and
\* 'm' sorts after every digit, so the sentinel is greater than every
\* timestamp chronokey: it is modelled as a number above every date.
Merged == 9

Dates == 1..2           \* timestamp chronokeys, in their string order
Chronokeys == Dates \cup {Merged}
SubIds == 0..2         \* 0: the record has no (or an empty) 'id'
SubNumbers == 1..2
ReviewIds == 0..2      \* 0: the entry has no (or an empty) 'id'
ReviewNumbers == 0..1
Versions == 0..1
Mdates == 0..1

\* ----------------------------------------------------------- Python helpers
Max(S) == CHOOSE x \in S : \A y \in S : y <= x

\* Tuple comparison, as Python compares the tuples a sort key returns.
TupleLess(a, b) ==
    \E i \in 1..Len(a) : a[i] < b[i] /\ \A j \in 1..(i - 1) : a[j] = b[j]

\* list.sort(key=...), keys[i] being the key of s[i]: Python's sort is stable,
\* so the element at index i goes behind every element with a smaller key and
\* every earlier element with an equal key.
SortedBy(s, keys) ==
    LET Before(j, i) == TupleLess(keys[j], keys[i]) \/ (keys[j] = keys[i] /\ j < i)
        Rank(i) == Cardinality({j \in 1..Len(s) : Before(j, i)}) + 1
    IN  [p \in 1..Len(s) |-> s[CHOOSE i \in 1..Len(s) : Rank(i) = p]]

\* dict: key in d, d[key], d[key] = val (a new key goes last, an old key keeps
\* its place).
Has(d, key) == \E i \in 1..Len(d) : d[i].k = key
Get(d, key) == d[CHOOSE i \in 1..Len(d) : d[i].k = key].v
Put(d, key, val) ==
    IF Has(d, key)
    THEN [i \in 1..Len(d) |-> IF d[i].k = key THEN [k |-> key, v |-> val] ELSE d[i]]
    ELSE Append(d, [k |-> key, v |-> val])

RECURSIVE Sum(_)
Sum(s) == IF s = <<>> THEN 0 ELSE Head(s) + Sum(Tail(s))

RECURSIVE Concat(_)
Concat(ss) == IF ss = <<>> THEN <<>> ELSE Head(ss) \o Concat(Tail(ss))

\* submission.get('details', {}).get('directReplies', [])
Replies(sub) == IF sub.hasDetails THEN sub.directReplies ELSE <<>>

\* -------------------------------------------------------------- merge_reviews
\* Mutant of FileKey: the chronokey is left out of the sort key, so dated
\* snapshots stay in the order of the list.
FileKeySentinelOnly(x) == <<IF x.date_str # Merged THEN 1 ELSE 0>>

\* The sort key of line 104: (x[0] != 'merged', x[0]), False before True.
FileKey(x) == <<IF x.date_str # Merged THEN 1 ELSE 0, x.date_str>>

\* Line 104: all_files_data.sort(...), in place.
SortFiles(files) == SortedBy(files, [i \in 1..Len(files) |-> FileKey(files[i])])

\* Mutant of LatestDated: the scan runs from the front (reversed() forgotten).
EarliestDated(files) ==
    LET D == {i \in 1..Len(files) : files[i].date_str # Merged}
    IN  IF D = {} THEN 0 ELSE CHOOSE x \in D : \A y \in D : x <= y

\* Lines 107-113: the first dated snapshot met scanning from the end
\* (0: none, latest_submissions stays None).
LatestDated(files) ==
    LET D == {i \in 1..Len(files) : files[i].date_str # Merged}
    IN  IF D = {} THEN 0 ELSE Max(D)

\* Lines 107-117: the index (in the sorted list) of the snapshot whose
\* submissions become latest_submissions; `not latest_submissions` is true of
\* None and of the empty list, and then the last snapshot is taken.
BaseIndex(files) ==
    LET i == LatestDated(files)
    IN  IF i # 0 /\ files[i].submissions # <<>> THEN i ELSE Len(files)

\* Lines 122-126: merged_submissions, keyed by submission id.  Each value is
\* a shallow copy of the record; src is the index of the record it was copied
\* from, whose 'details' dict the copy shares.
RECURSIVE SeedFrom(_, _, _)
SeedFrom(subs, i, acc) ==
    IF i > Len(subs) THEN acc
    ELSE SeedFrom(subs, i + 1,
                  IF subs[i].id # 0
                  THEN Put(acc, subs[i].id, [sub |-> subs[i], src |-> i])
                  ELSE acc)

Seed(latest_submissions) == SeedFrom(latest_submissions, 1, <<>>)

\* Lines 143-144.
EnterSubmission(rc, sub_id) ==
    IF Has(rc, sub_id) THEN rc ELSE Put(rc, sub_id, <<>>)

\* Mutant of IsDuplicate: the stored entry is compared whole (existing_review
\* == review) instead of by version and mdate.
IsDuplicateWholeRecord(versions, review) ==
    \E i \in 1..Len(versions) : versions[i] = review

\* Lines 164-169.
IsDuplicate(versions, review) ==
    \E i \in 1..Len(versions) :
        versions[i].version = review.version /\ versions[i].mdate = review.mdate

\* Mutant of CollectReview: the test of line 152 is left out, and an entry
\* without id is filed under the id 0.
CollectReviewNoIdCheck(rc, sub_id, review) ==
    LET revs == Get(rc, sub_id)
        versions == IF Has(revs, review.id) THEN Get(revs, review.id) ELSE <<>>
    IN  Put(rc, sub_id,
            Put(revs, review.id,
                IF IsDuplicate(versions, review) THEN versions
                ELSE Append(versions, review)))

\* Mutant of CollectReview: the duplicate check runs over every entry stored
\* for the submission, whatever its review id.
CollectReviewAnyId(rc, sub_id, review) ==
    IF review.id = 0 THEN rc
    ELSE LET revs == Get(rc, sub_id)
             versions == IF Has(revs, review.id) THEN Get(revs, review.id) ELSE <<>>
             stored == Concat([i \in 1..Len(revs) |-> revs[i].v])
         IN  Put(rc, sub_id,
                 Put(revs, review.id,
                     IF IsDuplicate(stored, review) THEN versions
                     ELSE Append(versions, review)))

\* Mutant of CollectReview: an entry whose (version, mdate) is already stored
\* takes the place of the stored one (the last snapshot wins).
CollectReviewLastWins(rc, sub_id, review) ==
    IF review.id = 0 THEN rc
    ELSE LET revs == Get(rc, sub_id)
             versions == IF Has(revs, review.id) THEN Get(revs, review.id) ELSE <<>>
         IN  Put(rc, sub_id,
                 Put(revs, review.id,
                     IF IsDuplicate(versions, review)
                     THEN [i \in 1..Len(versions) |->
                             IF versions[i].version = review.version
                                /\ versions[i].mdate = review.mdate
                             THEN review ELSE versions[i]]
                     ELSE Append(versions, review)))

\* Lines 151-173: one review entry of submission sub_id.
CollectReview(rc, sub_id, review) ==
    IF review.id = 0 THEN rc
    ELSE LET revs == Get(rc, sub_id)
             versions == IF Has(revs, review.id) THEN Get(revs, review.id) ELSE <<>>
         IN  Put(rc, sub_id,
                 Put(revs, review.id,
                     IF IsDuplicate(versions, review) THEN versions
                     ELSE Append(versions, review)))

\* Lines 133-150: the order in which the loops visit submissions and review
\* entries.  A "sub" item is the head of the body of the submission loop
\* (lines 138-148), a "rev" item is one pass of the review loop.
NoReview == [id |-> 0, number |-> 0, version |-> 0, mdate |-> 0]

SubItems(sub) ==
    IF sub.id = 0 THEN <<>>
    ELSE <<[kind |-> "sub", sub_id |-> sub.id, review |-> NoReview]>>
         \o [i \in 1..Len(Replies(sub)) |->
                [kind |-> "rev", sub_id |-> sub.id, review |-> Replies(sub)[i]]]

FileItems(file) ==
    Concat([i \in 1..Len(file.submissions) |-> SubItems(file.submissions[i])])

WorkItems(files) == Concat([i \in 1..Len(files) |-> FileItems(files[i])])

CollectItem(rc, item) ==
    IF item.kind = "sub" THEN EnterSubmission(rc, item.sub_id)
    ELSE CollectReview(rc, item.sub_id, item.review)

RECURSIVE CollectFrom(_, _, _)
CollectFrom(items, i, rc) ==
    IF i > Len(items) THEN rc
    ELSE CollectFrom(items, i + 1, CollectItem(rc, items[i]))

\* Lines 131-175: review_collections after all snapshots.
Collect(files) == CollectFrom(WorkItems(files), 1, <<>>)

\* Lines 185-187.
FlattenVersions(revs) == Concat([i \in 1..Len(revs) |-> revs[i].v])

\* Mutant of ReviewKey: the review number is left out of the sort key.
ReviewKeyNoNumber(r) == <<r.version, r.mdate>>

\* The sort key of lines 190-194.
ReviewKey(r) == <<r.number, r.version, r.mdate>>

\* Lines 185-194: all_review_versions of one submission.
AllReviewVersions(revs) ==
    LET flat == FlattenVersions(revs)
    IN  SortedBy(flat, [i \in 1..Len(flat) |-> ReviewKey(flat[i])])

\* Mutant of Reattach: the collected versions are added to the record's own
\* directReplies (extend) instead of replacing them.
ReattachExtending(entry, rc) ==
    IF Has(rc, entry.k)
    THEN [k |-> entry.k,
          v |-> [sub |-> [entry.v.sub EXCEPT !.hasDetails = TRUE,
                              !.directReplies = Replies(entry.v.sub)
                                  \o AllReviewVersions(Get(rc, entry.k))],
                 src |-> entry.v.src]]
    ELSE entry

\* Mutant of Reattach: the record's list is replaced only when some version
\* was collected for the submission (if review_collections.get(sub_id)).
ReattachIfCollected(entry, rc) ==
    IF Has(rc, entry.k) /\ Get(rc, entry.k) # <<>>
    THEN [k |-> entry.k,
          v |-> [sub |-> [entry.v.sub EXCEPT !.hasDetails = TRUE,
                              !.directReplies = AllReviewVersions(Get(rc, entry.k))],
                 src |-> entry.v.src]]
    ELSE entry

\* Lines 182-200, on one entry of merged_submissions.
Reattach(entry, rc) ==
    IF Has(rc, entry.k)
    THEN [k |-> entry.k,
          v |-> [sub |-> [entry.v.sub EXCEPT !.hasDetails = TRUE,
                              !.directReplies = AllReviewVersions(Get(rc, entry.k))],
                 src |-> entry.v.src]]
    ELSE entry

ReattachAll(ms, rc) == [i \in 1..Len(ms) |-> Reattach(ms[i], rc)]

\* Line 200 writes through the 'details' dict, which the copy shares with the
\* record it was copied from when that record has one (line 126 copies
\* shallowly; line 198 gives the copy a dict of its own otherwise): the
\* caller's snapshot list after the loop of lines 182-200.
WriteThrough(files, base, ms, rc) ==
    [f \in 1..Len(files) |->
        IF f # base THEN files[f]
        ELSE [files[f] EXCEPT !.submissions =
                [j \in 1..Len(files[f].submissions) |->
                    LET sub == files[f].submissions[j]
                    IN  IF sub.id # 0 /\ sub.hasDetails /\ Has(ms, sub.id)
                           /\ Get(ms, sub.id).src = j /\ Has(rc, sub.id)
                        THEN [sub EXCEPT !.directReplies =
                                            AllReviewVersions(Get(rc, sub.id))]
                        ELSE sub]]]

\* The sort key of line 212.
SubmissionKey(s) == <<s.number>>

\* Lines 211-212.
ResultOf(ms) ==
    SortedBy([i \in 1..Len(ms) |-> ms[i].v.sub],
             [i \in 1..Len(ms) |-> SubmissionKey(ms[i].v.sub)])

\* merge_reviews on a non-empty list, as a function of its argument: the
\* value it returns.
MergeReviews(all_files_data) ==
    LET files == SortFiles(all_files_data)
        ms == Seed(files[BaseIndex(files)].submissions)
    IN  ResultOf(ReattachAll(ms, Collect(files)))

\* --------------------------------------------------------------- analyze_data
\* Mutant of IdsOf: every entry is grouped, whatever its id (no `if
\* review_id`).
IdsOfAnyId(reviews) == {reviews[i].id : i \in 1..Len(reviews)}

\* Lines 52-60: the distinct truthy ids of one review list.
IdsOf(reviews) == {reviews[i].id : i \in 1..Len(reviews)} \ {0}

\* Lines 31-70.
AnalyzeData(data) ==
    LET n == Len(data)
        revs(i) == Replies(data[i])
        extra(i) == Len(revs(i)) - Cardinality(IdsOf(revs(i)))
        multi == {i \in 1..n : revs(i) # <<>> /\ extra(i) > 0}
    IN  [total_submissions |-> n,
         submissions_with_reviews |-> Cardinality({i \in 1..n : revs(i) # <<>>}),
         total_review_entries |-> Sum([i \in 1..n |-> Len(revs(i))]),
         unique_reviews |-> Cardinality(UNION {IdsOf(revs(i)) : i \in 1..n}),
         multi_version_count |-> Cardinality(multi),
         version_distribution |->
            [e \in {extra(i) : i \in multi} |->
                Cardinality({i \in multi : extra(i) = e})]]

\* ------------------------------------------------------------------- state
VARIABLES
    scope,               \* which lists the caller builds: see Scopes
    pc,                  \* where the caller and merge_reviews stand
    all_files_data,      \* the caller's list object, which merge_reviews is handed
    arg,                 \* the value of that list when merge_reviews was called
    base,                \* index of the snapshot that gave latest_submissions
    merged_submissions,  \* dict: submission id -> [sub: the copy, src]
    review_collections,  \* dict: submission id -> dict: review id -> versions
    k,                   \* next item of WorkItems(all_files_data) to collect
    result,              \* the list merge_reviews returns
    raw,                 \* main: the snapshots of data/raw, in file name order
    output_file,         \* main: the merged file, <<>> when there is none,
                         \*       else <<its content>>
    existing_stats,      \* main: analyze_data before the merge, of the last run
    merged_stats,        \* main: analyze_data after the merge, of the last run
    runs,                \* main: completed runs
    main_outcome,        \* main: how the last run ended ("none" before the first)
    replies,             \* site: the directReplies list handed to the classifier
    report,              \* site: <<>>, or <<what the classifier returned>>
    all_notes,           \* crawl_submissions: the accumulated list
    offset,              \* crawl_submissions: the offset of the next request
    crawl_pc,            \* crawl_submissions: "request" in the loop, "returned"
    pages,               \* history: the non-empty pages received, each with
                         \*          the offset it was requested at
    last_response,       \* history: how the last request ended ("none" before)
    retries,             \* history: requests that raised, counted up to MaxRetries
    cachedPapers,        \* PapersCache: this.cachedPapers, 0 (null) or the
                         \*              version of the data it holds
    localMeta,           \* localStorage: 0 (no item) or the stored meta.version
    serverVersion,       \* the server: version of papers-meta.json and of
                         \*             the data file beside it
    httpCache,           \* the browser's HTTP cache: 0 or the version of the
                         \*             copy kept for the plain data URL
    loadedVersion,       \* history: version of the data the client last
                         \*          loaded successfully (0: none yet)
    last_load            \* history: <<>>, or <<how the last loadPapers call
                         \*          went>>: its number, the data URL it
                         \*          requested if any, and whether it returned

mergeVars == <<pc, all_files_data, arg, base, merged_submissions,
               review_collections, k, result>>
mainVars == <<raw, output_file, existing_stats, merged_stats, runs, main_outcome>>
siteVars == <<replies, report>>
crawlVars == <<all_notes, offset, crawl_pc, pages, last_response, retries>>
cacheVars == <<cachedPapers, localMeta, serverVersion, httpCache, loadedVersion, last_load>>
vars == <<scope, pc, all_files_data, arg, base, merged_submissions,
          review_collections, k, result,
          raw, output_file, existing_stats, merged_stats, runs, main_outcome,
          replies, report,
          all_notes, offset, crawl_pc, pages, last_response, retries,
          cachedPapers, localMeta, serverVersion, httpCache, loadedVersion, last_load>>

\* The lists the caller builds come in four scopes, which together keep the
\* state space finite and small:
\*   "deep"  one snapshot of one record of submission 1, with up to
\*           MaxReviews review entries: two reviews and ID-less entries,
\*           with equal and different numbers, versions and mdates;
\*   "long"  up to MaxSnapshots snapshots, each empty or of one record (of
\*           submission 1, numbered 1 or 2, or of submission 2) with one
\*           review entry, of review 1 or 2, numbered 0 or 1;
\*   "wide"  one snapshot of up to MaxSubs records of any id and number, with
\*           no 'details' or with one review entry;
\*   "gaps"  up to MaxSnapshots snapshots, each empty or of one record, with
\*           or without an id, whose one review entry has an id or none.
\* analyze_data is applied to the lists of a fifth scope:
\*   "stats" one list of up to MaxSubs records, each without 'details' or
\*           with up to MaxReviews - 1 entries, of review 1 or 2 or ID-less.
Scopes == {"deep", "long", "wide", "gaps"}

Reviews == [id : ReviewIds, number : ReviewNumbers, version : Versions, mdate : Mdates]

DeepReviews ==
    {r \in Reviews : /\ r.id = 0 => r = NoReview
                     /\ r.version <= r.mdate
                     /\ r.number # 0 => r.mdate = 0}
LongReviews ==
    {r \in Reviews : r.id # 0 /\ r.version = 0 /\ r.mdate = 0 /\ (r.id = 2 => r.number = 0)}
WideReviews == {r \in LongReviews : r.number = 0}

DeepSubs == {[id |-> 1, number |-> 1, hasDetails |-> TRUE, directReplies |-> <<>>]}
LongSubs ==
    {[id |-> id, number |-> number, hasDetails |-> TRUE, directReplies |-> <<r>>] :
        id \in {1}, number \in SubNumbers, r \in LongReviews}
    \cup {[id |-> 2, number |-> 1, hasDetails |-> TRUE, directReplies |-> <<r>>] :
             r \in LongReviews}
GapReviews == {r \in Reviews : r.id \in 0..1 /\ r.number = 0 /\ r.version = 0 /\ r.mdate = 0}
GapSubs ==
    {[id |-> id, number |-> 1, hasDetails |-> TRUE, directReplies |-> <<r>>] :
        id \in 0..1, r \in GapReviews}
WideSubs ==
    {[id |-> id, number |-> number, hasDetails |-> FALSE, directReplies |-> <<>>] :
        id \in SubIds, number \in SubNumbers}
    \cup {[id |-> id, number |-> number, hasDetails |-> TRUE, directReplies |-> <<r>>] :
             id \in SubIds, number \in SubNumbers, r \in WideReviews}

\* A list of one snapshot is merged alike whatever its timestamp: one date
\* and the sentinel.
ChronokeysOf(sc) == IF sc \in {"long", "gaps"} THEN Chronokeys ELSE {1, Merged}

SubsOf(sc) ==
    IF sc = "deep" THEN DeepSubs
    ELSE IF sc = "long" THEN LongSubs
    ELSE IF sc = "gaps" THEN GapSubs
    ELSE WideSubs

NoStats == [total_submissions |-> 0]

InitMerge ==
    /\ pc = "build"
    /\ all_files_data = <<>>
    /\ arg = <<>>
    /\ base = 0
    /\ merged_submissions = <<>>
    /\ review_collections = <<>>
    /\ k = 0
    /\ result = <<>>

InitMain ==
    /\ raw = <<>>
    /\ output_file = <<>>
    /\ existing_stats = NoStats
    /\ merged_stats = NoStats
    /\ runs = 0
    /\ main_outcome = "none"

InitSite ==
    /\ replies = <<>>
    /\ report = <<>>

\* crawl.py lines 24-26.
InitLoop ==
    /\ all_notes = <<>>
    /\ offset = 0
    /\ crawl_pc = "request"
    /\ pages = <<>>
    /\ last_response = "none"
    /\ retries = 0

\* A browser that has never opened the site (PapersCache constructor, lines
\* 1269-1272), and the site as first generated.
InitCache ==
    /\ cachedPapers = 0
    /\ localMeta = 0
    /\ serverVersion = 1
    /\ httpCache = 0
    /\ loadedVersion = 0
    /\ last_load = <<>>

Init == scope \in Scopes /\ InitMerge /\ InitMain /\ InitSite /\ InitLoop /\ InitCache

\* ------------------------------------------------- the caller of merge_reviews
\* The caller builds the list of (date_str, submissions) tuples it will pass:
\* any list within the bounds.
AppendSnapshot(d) ==
    /\ pc = "build"
    /\ Len(all_files_data) < (IF scope \in {"long", "gaps"} THEN MaxSnapshots ELSE 1)
    /\ all_files_data' = Append(all_files_data, [date_str |-> d, submissions |-> <<>>])
    /\ UNCHANGED <<pc, arg, base, merged_submissions, review_collections, k, result>>
    /\ UNCHANGED <<scope, raw, output_file, existing_stats, merged_stats, runs>>
    /\ UNCHANGED <<main_outcome, replies, report, crawlVars, cacheVars>>

AppendSubmission(sub) ==
    /\ pc = "build"
    /\ all_files_data # <<>>
    /\ LET n == Len(all_files_data)
       IN  /\ Len(all_files_data[n].submissions) <
                  (IF scope \in {"wide", "stats"} THEN MaxSubs ELSE 1)
           /\ all_files_data' = [all_files_data EXCEPT ![n].submissions = Append(@, sub)]
    /\ UNCHANGED <<pc, arg, base, merged_submissions, review_collections, k, result>>
    /\ UNCHANGED <<scope, raw, output_file, existing_stats, merged_stats, runs>>
    /\ UNCHANGED <<main_outcome, replies, report, crawlVars, cacheVars>>

AppendReview(r) ==
    /\ pc = "build"
    /\ scope \in {"deep", "stats"}
    /\ all_files_data # <<>>
    /\ LET n == Len(all_files_data)
           m == Len(all_files_data[n].submissions)
       IN  /\ m > 0
           /\ all_files_data[n].submissions[m].hasDetails
           /\ Len(all_files_data[n].submissions[m].directReplies) <
                  (IF scope = "deep" THEN MaxReviews ELSE MaxReviews - 1)
           /\ all_files_data' =
                [all_files_data EXCEPT ![n].submissions[m].directReplies = Append(@, r)]
    /\ UNCHANGED <<pc, arg, base, merged_submissions, review_collections, k, result>>
    /\ UNCHANGED <<scope, raw, output_file, existing_stats, merged_stats, runs>>
    /\ UNCHANGED <<main_outcome, replies, report, crawlVars, cacheVars>>

\* ------------------------------------------------------ merge_reviews, stepwise
\* Line 104: the call, and the in-place sort of the caller's list.
Call ==
    /\ pc = "build"
    /\ arg' = all_files_data
    /\ all_files_data' = SortFiles(all_files_data)
    /\ pc' = "sorted"
    /\ UNCHANGED <<base, merged_submissions, review_collections, k, result>>
    /\ UNCHANGED <<scope, raw, output_file, existing_stats, merged_stats, runs>>
    /\ UNCHANGED <<main_outcome, replies, report, crawlVars, cacheVars>>

\* Mutant of SelectAndSeed: an empty list is answered with an empty dataset
\* (if not all_files_data: return []).
SelectAndSeedGuarded ==
    /\ pc = "sorted"
    /\ IF all_files_data = <<>>
       THEN /\ pc' = "done"
            /\ UNCHANGED <<base, merged_submissions, k>>
       ELSE /\ base' = BaseIndex(all_files_data)
            /\ merged_submissions' = Seed(all_files_data[base'].submissions)
            /\ k' = 1
            /\ pc' = "collect"
    /\ UNCHANGED <<all_files_data, arg, review_collections, result>>
    /\ UNCHANGED <<scope, raw, output_file, existing_stats, merged_stats, runs>>
    /\ UNCHANGED <<main_outcome, replies, report, crawlVars, cacheVars>>

\* Lines 106-128.  On an empty list line 117 raises IndexError.
SelectAndSeed ==
    /\ pc = "sorted"
    /\ IF all_files_data = <<>>
       THEN /\ pc' = "raised"
            /\ UNCHANGED <<base, merged_submissions, k>>
       ELSE /\ base' = BaseIndex(all_files_data)
            /\ merged_submissions' = Seed(all_files_data[base'].submissions)
            /\ k' = 1
            /\ pc' = "collect"
    /\ UNCHANGED <<all_files_data, arg, review_collections, result>>
    /\ UNCHANGED <<scope, raw, output_file, existing_stats, merged_stats, runs>>
    /\ UNCHANGED <<main_outcome, replies, report, crawlVars, cacheVars>>

\* Lines 133-173: one step of the loops.
CollectStep ==
    /\ pc = "collect"
    /\ k <= Len(WorkItems(all_files_data))
    /\ review_collections' = CollectItem(review_collections, WorkItems(all_files_data)[k])
    /\ k' = k + 1
    /\ UNCHANGED <<pc, all_files_data, arg, base, merged_submissions, result>>
    /\ UNCHANGED <<scope, raw, output_file, existing_stats, merged_stats, runs>>
    /\ UNCHANGED <<main_outcome, replies, report, crawlVars, cacheVars>>

\* Lines 182-205.
ReattachStep ==
    /\ pc = "collect"
    /\ k > Len(WorkItems(all_files_data))
    /\ merged_submissions' = ReattachAll(merged_submissions, review_collections)
    /\ all_files_data' = WriteThrough(all_files_data, base, merged_submissions,
                                      review_collections)
    /\ pc' = "reattached"
    /\ UNCHANGED <<arg, base, review_collections, k, result>>
    /\ UNCHANGED <<scope, raw, output_file, existing_stats, merged_stats, runs>>
    /\ UNCHANGED <<main_outcome, replies, report, crawlVars, cacheVars>>

\* Mutant of Return: a submission that has collected reviews but no entry
\* in merged_submissions is returned too, with its collected versions.
ReturnKeepingCollected ==
    /\ pc = "reattached"
    /\ LET absent == SelectSeq(review_collections,
                               LAMBDA e : ~Has(merged_submissions, e.k))
           kept == [i \in 1..Len(absent) |->
                      [id |-> absent[i].k, number |-> 1, hasDetails |-> TRUE,
                       directReplies |-> AllReviewVersions(absent[i].v)]]
       IN  result' = ResultOf(merged_submissions) \o kept
    /\ pc' = "done"
    /\ UNCHANGED <<all_files_data, arg, base, merged_submissions, review_collections, k>>
    /\ UNCHANGED <<scope, raw, output_file, existing_stats, merged_stats, runs>>
    /\ UNCHANGED <<main_outcome, replies, report, crawlVars, cacheVars>>

\* Lines 211-214.
Return ==
    /\ pc = "reattached"
    /\ result' = ResultOf(merged_submissions)
    /\ pc' = "done"
    /\ UNCHANGED <<all_files_data, arg, base, merged_submissions, review_collections, k>>
    /\ UNCHANGED <<scope, raw, output_file, existing_stats, merged_stats, runs>>
    /\ UNCHANGED <<main_outcome, replies, report, crawlVars, cacheVars>>

Next ==
    \/ \E d \in ChronokeysOf(scope) : AppendSnapshot(d)
    \/ \E sub \in SubsOf(scope) : AppendSubmission(sub)
    \/ \E r \in DeepReviews : AppendReview(r)
    \/ Call
    \/ SelectAndSeed
    \/ CollectStep
    \/ ReattachStep
    \/ Return

Spec == Init /\ [][Next]_vars

\* merge_reviews on the lists of several snapshots or several records alone
\* (the scopes "long", "wide" and "gaps").
SnapshotScopes == {"long", "wide", "gaps"}

InitSnapshots ==
    scope \in SnapshotScopes /\ InitMerge /\ InitMain /\ InitSite /\ InitLoop /\ InitCache

NextSnapshots ==
    \/ \E d \in ChronokeysOf(scope) : AppendSnapshot(d)
    \/ \E sub \in SubsOf(scope) : AppendSubmission(sub)
    \/ Call
    \/ SelectAndSeed
    \/ CollectStep
    \/ ReattachStep
    \/ Return

SpecSnapshots == InitSnapshots /\ [][NextSnapshots]_vars

\* ------------------------------------------------------------ crawl.py, main
\* What one run of crawl.py can leave in a snapshot file: no submission, or
\* one record of submission 1 or 2 with up to two review entries (of reviews
\* whose edits raise version and mdate together).
CrawlReviews == {r \in Reviews : r.id # 0 /\ r.number = 0 /\ r.mdate = r.version}
CrawlReplies == {<<>>} \cup {<<r>> : r \in CrawlReviews}
                \cup {<<r1, r2>> : r1 \in CrawlReviews, r2 \in CrawlReviews}
CrawlContents ==
    {<<>>} \cup {<<[id |-> id, number |-> 1, hasDetails |-> TRUE, directReplies |-> rs]>> :
                    id \in 1..2, rs \in CrawlReplies}

\* The same for a data directory that may hold a merged file before the
\* first crawl (scope "dir"): no submission, or one record, of submission 1
\* with no review entry or one entry of review 1, or of submission 2 with no
\* entry.
DirReviews == {r \in CrawlReviews : r.id = 1}
DirContents ==
    {<<>>, <<[id |-> 2, number |-> 1, hasDetails |-> TRUE, directReplies |-> <<>>]>>}
    \cup {<<[id |-> 1, number |-> 1, hasDetails |-> TRUE, directReplies |-> rs]>> :
             rs \in {<<>>} \cup {<<r>> : r \in DirReviews}}
CrawlContentsOf(sc) == IF sc = "dir" THEN DirContents ELSE CrawlContents

\* crawl.py, save_to_file: a new file iclr2026_submissions_<timestamp>.json,
\* whose timestamp is later than every earlier one.
Crawl(submissions) ==
    /\ Len(raw) < MaxCrawls
    /\ raw' = Append(raw, [date_str |-> Len(raw) + 1, submissions |-> submissions])
    /\ UNCHANGED <<output_file, existing_stats, merged_stats, runs, main_outcome>>
    /\ UNCHANGED <<scope, pc, all_files_data, arg, base, merged_submissions,
                   review_collections, k, result>>
    /\ UNCHANGED <<replies, report, crawlVars, cacheVars>>

\* Lines 246-271: the list main hands to merge_reviews; `if existing_data`
\* is false of a missing file and of a file holding the empty list.
MainFiles(out, rawfiles) ==
    (IF out # <<>> /\ out[1] # <<>>
     THEN <<[date_str |-> Merged, submissions |-> out[1]]>> ELSE <<>>) \o rawfiles

\* How a run of main with raw files can go: json.load raises on a file that
\* is not JSON (line 251 or 270), merge_reviews raises on a record that is
\* not of the shape it reads (line 281), or nothing raises.
Outcomes == {"load_failed", "merge_failed", "saved"}

\* Mutant of MainRun: the output file is opened for writing (and so emptied)
\* before the inputs are loaded.
MainRunOpeningFirst(outcome) ==
    /\ runs < MaxRuns
    /\ runs' = runs + 1
    /\ IF raw = <<>>
       THEN /\ outcome = "saved"
            /\ main_outcome' = "no_raw"
            /\ UNCHANGED <<output_file, existing_stats, merged_stats>>
       ELSE IF outcome # "saved"
       THEN /\ main_outcome' = outcome
            /\ output_file' = << <<>> >>
            /\ UNCHANGED <<existing_stats, merged_stats>>
       ELSE LET merged_data == MergeReviews(MainFiles(output_file, raw))
            IN  /\ main_outcome' = "saved"
                /\ existing_stats' = IF output_file # <<>>
                                     THEN AnalyzeData(output_file[1]) ELSE NoStats
                /\ merged_stats' = AnalyzeData(merged_data)
                /\ output_file' = <<merged_data>>
    /\ UNCHANGED raw
    /\ UNCHANGED <<scope, pc, all_files_data, arg, base, merged_submissions,
                   review_collections, k, result>>
    /\ UNCHANGED <<replies, report, crawlVars, cacheVars>>

\* main(), lines 217-313, one whole run.  Without raw files it returns at
\* line 240.  An exception of line 251, 270 or 281 ends the run before line
\* 290, the only write of the output file.
MainRun(outcome) ==
    /\ runs < MaxRuns
    /\ runs' = runs + 1
    /\ IF raw = <<>>
       THEN /\ outcome = "saved"
            /\ main_outcome' = "no_raw"
            /\ UNCHANGED <<output_file, existing_stats, merged_stats>>
       ELSE IF outcome # "saved"
       THEN /\ main_outcome' = outcome
            /\ UNCHANGED <<output_file, existing_stats, merged_stats>>
       ELSE LET merged_data == MergeReviews(MainFiles(output_file, raw))
            IN  /\ main_outcome' = "saved"
                /\ existing_stats' = IF output_file # <<>>
                                     THEN AnalyzeData(output_file[1]) ELSE NoStats
                /\ merged_stats' = AnalyzeData(merged_data)
                /\ output_file' = <<merged_data>>
    /\ UNCHANGED raw
    /\ UNCHANGED <<scope, pc, all_files_data, arg, base, merged_submissions,
                   review_collections, k, result>>
    /\ UNCHANGED <<replies, report, crawlVars, cacheVars>>

NextMain ==
    \/ \E submissions \in CrawlContentsOf(scope) : Crawl(submissions)
    \/ \E outcome \in Outcomes : MainRun(outcome)

InitMainSpec ==
    scope = "wide" /\ InitMerge /\ InitMain /\ InitSite /\ InitLoop /\ InitCache

SpecMain == InitMainSpec /\ [][NextMain]_vars

\* A data directory as main can find it: no raw file yet, and no merged file
\* or a merged file left by earlier runs.  Beside crawl.py and main, a
\* caller hands merge_reviews the empty list.
PriorOutputs == {<<>>} \cup {<<c>> : c \in DirContents}

InitDir ==
    /\ scope = "dir"
    /\ InitMerge
    /\ raw = <<>>
    /\ output_file \in PriorOutputs
    /\ existing_stats = NoStats
    /\ merged_stats = NoStats
    /\ runs = 0
    /\ main_outcome = "none"
    /\ InitSite /\ InitLoop /\ InitCache

NextDir ==
    \/ \E submissions \in CrawlContentsOf(scope) : Crawl(submissions)
    \/ \E outcome \in Outcomes : MainRun(outcome)
    \/ Call
    \/ SelectAndSeed

SpecDir == InitDir /\ [][NextDir]_vars

\* ------------------------------------------------------- merge.py, analyze_data
\* The records analyze_data is handed (scope "stats"): it reads 'details',
\* 'directReplies' and each entry's 'id' only.
StatsReviews == {r \in Reviews : r.number = 0 /\ r.version = 0 /\ r.mdate = 0}
StatsSubs == {[id |-> 1, number |-> 1, hasDetails |-> d, directReplies |-> <<>>] :
                 d \in BOOLEAN}

\* Lines 31-70, one whole call on the list the caller built.
Analyze ==
    /\ pc = "build"
    /\ all_files_data # <<>>
    /\ merged_stats' = AnalyzeData(all_files_data[1].submissions)
    /\ pc' = "analyzed"
    /\ UNCHANGED <<all_files_data, arg, base, merged_submissions, review_collections,
                   k, result>>
    /\ UNCHANGED <<scope, raw, output_file, existing_stats, runs>>
    /\ UNCHANGED <<main_outcome, replies, report, crawlVars, cacheVars>>

NextStats ==
    \/ AppendSnapshot(1)
    \/ \E sub \in StatsSubs : AppendSubmission(sub)
    \/ \E r \in StatsReviews : AppendReview(r)
    \/ Analyze

InitStats ==
    scope = "stats" /\ InitMerge /\ InitMain /\ InitSite /\ InitLoop /\ InitCache

SpecStats == InitStats /\ [][NextStats]_vars

\* ------------------------------------------------- crawl.py, crawl_submissions
\* Line 25.
limit == 1000

\* What the 'notes' of a response can hold when it is not empty: a page of
\* one or two notes (the server decides how many, up to `limit`).
Notes == 1..2
PageContents == {<<a>> : a \in Notes} \cup {<<a, b>> : a \in Notes, b \in Notes}

\* One pass of the loop of lines 32-52 is one request; how it goes is the
\* network's and the server's choice.
\* Mutant of FetchRaises: the handler moves on to the next offset.
FetchRaisesSkipping ==
    /\ crawl_pc = "request"
    /\ last_response' = "raised"
    /\ retries' = IF retries < MaxRetries THEN retries + 1 ELSE retries
    /\ offset' = offset + limit
    /\ UNCHANGED <<all_notes, crawl_pc, pages>>
    /\ UNCHANGED <<scope, mergeVars, mainVars, siteVars, cacheVars>>

\* Mutant of FetchRaises: after MaxRetries failed requests the loop is left
\* and what was accumulated is returned.
FetchRaisesGivingUp ==
    /\ crawl_pc = "request"
    /\ last_response' = "raised"
    /\ retries' = IF retries < MaxRetries THEN retries + 1 ELSE retries
    /\ crawl_pc' = IF retries' = MaxRetries THEN "returned" ELSE "request"
    /\ UNCHANGED <<all_notes, offset, pages>>
    /\ UNCHANGED <<scope, mergeVars, mainVars, siteVars, cacheVars>>

\* Lines 37-38 or 44 raise (no connection, a body that is not JSON, a JSON
\* value without .get, 'notes' that cannot extend a list): lines 48-52, the
\* loop goes on with the same offset.  Nothing counts the failures; retries
\* records them for the properties, up to MaxRetries.
FetchRaises ==
    /\ crawl_pc = "request"
    /\ last_response' = "raised"
    /\ retries' = IF retries < MaxRetries THEN retries + 1 ELSE retries
    /\ UNCHANGED <<all_notes, offset, crawl_pc, pages>>
    /\ UNCHANGED <<scope, mergeVars, mainVars, siteVars, cacheVars>>

\* Lines 37-46: a response with a non-empty page.
FetchPage(notes) ==
    /\ crawl_pc = "request"
    /\ Len(pages) < MaxPages
    /\ all_notes' = all_notes \o notes
    /\ offset' = offset + limit
    /\ pages' = Append(pages, [offset |-> offset, notes |-> notes])
    /\ last_response' = "page"
    /\ UNCHANGED <<crawl_pc, retries>>
    /\ UNCHANGED <<scope, mergeVars, mainVars, siteVars, cacheVars>>

\* Lines 37-42 and 54: a response whose 'notes' is the empty list.
FetchEmpty ==
    /\ crawl_pc = "request"
    /\ crawl_pc' = "returned"
    /\ last_response' = "empty"
    /\ UNCHANGED <<all_notes, offset, pages, retries>>
    /\ UNCHANGED <<scope, mergeVars, mainVars, siteVars, cacheVars>>

\* Lines 37-42 and 54: a response (a JSON object) without 'notes', for which
\* line 38 takes the default [].
FetchAbsent ==
    /\ crawl_pc = "request"
    /\ crawl_pc' = "returned"
    /\ last_response' = "absent"
    /\ UNCHANGED <<all_notes, offset, pages, retries>>
    /\ UNCHANGED <<scope, mergeVars, mainVars, siteVars, cacheVars>>

FetchSucceeds ==
    \/ \E notes \in PageContents : FetchPage(notes)
    \/ FetchEmpty
    \/ FetchAbsent

NextCrawl ==
    \/ FetchRaises
    \/ \E notes \in PageContents : FetchPage(notes)
    \/ FetchEmpty
    \/ FetchAbsent

InitCrawl ==
    scope = "crawl" /\ InitMerge /\ InitMain /\ InitSite /\ InitLoop /\ InitCache

SpecCrawl == InitCrawl /\ [][NextCrawl]_vars

\* The same crawler against a network on which a request that is repeated
\* succeeds in the end, and a server whose collection has at most MaxPages
\* pages, after which it answers with no notes.
SpecCrawlFair == InitCrawl /\ [][NextCrawl]_vars /\ WF_vars(FetchSucceeds)

\* ---------------------------------------------------- generate_static_site.py
\* A reply as the classifier reads it: id (0: missing or empty), official
\* (some invitation contains 'Official_Review'), rating (content.rating.value;
\* NoRating: no 'content', no 'rating' in it, or a value of None), mdate (0:
\* missing) and version, which the classifier stores and never reads.
NoRating == 0 - 1
SiteReplies ==
    {r \in [id : 0..2, official : BOOLEAN, rating : NoRating..2, mdate : 0..3,
            version : 1..2] :
        /\ r.version = 2 => (r.id = 1 /\ r.mdate = 2 /\ r.rating = 2)
        /\ r.id = 1 => /\ r.official
                       /\ r.mdate = 0 => r.rating = 1
                       /\ r.mdate = 3 => r.rating \in {NoRating, 2}
        /\ r.id = 2 => (r.rating = 1 /\ r.mdate \in 1..2)
        /\ r.id = 0 => (r.official /\ r.rating = 1 /\ r.mdate = 1)}

\* set(list)
Set(q) == {q[i] : i \in 1..Len(q)}

\* Lines 54-68: rating_history, a defaultdict(list).  `if reply_id and rating`
\* is false of a missing id and of a rating that is None or 0.
RECURSIVE RatingHistoryFrom(_, _, _)
RatingHistoryFrom(rs, i, acc) ==
    IF i > Len(rs) THEN acc
    ELSE LET reply == rs[i]
             history == IF Has(acc, reply.id) THEN Get(acc, reply.id) ELSE <<>>
         IN  RatingHistoryFrom(rs, i + 1,
                 IF reply.rating # NoRating /\ reply.id # 0 /\ reply.rating # 0
                 THEN Put(acc, reply.id,
                          Append(history, [version |-> reply.version,
                                           rating |-> reply.rating,
                                           date |-> reply.mdate]))
                 ELSE acc)

\* Lines 73-77, on one history with more than one entry: sorted() is stable.
RatingChange(history) ==
    LET sorted_history == SortedBy(history, [i \in 1..Len(history) |-> <<history[i].date>>])
    IN  sorted_history[Len(sorted_history)].rating - sorted_history[1].rating

\* get_rating_changes, lines 52-79: the dict changes.
GetRatingChanges(rs) ==
    LET rating_history == RatingHistoryFrom(rs, 1, <<>>)
        kept == SelectSeq(rating_history, LAMBDA e : Len(e.v) > 1)
    IN  [i \in 1..Len(kept) |-> [k |-> kept[i].k, v |-> RatingChange(kept[i].v)]]

\* count_reply_changes, lines 81-84.
CountReplyChanges(rs) ==
    LET rating_changes == GetRatingChanges(rs)
    IN  Cardinality({i \in 1..Len(rating_changes) : rating_changes[i].v # 0})

\* has_rating_increase, lines 86-89.
HasRatingIncrease(rs) ==
    LET rating_changes == GetRatingChanges(rs)
    IN  \E i \in 1..Len(rating_changes) : rating_changes[i].v > 0

\* has_rating_decrease, lines 91-94.
HasRatingDecrease(rs) ==
    LET rating_changes == GetRatingChanges(rs)
    IN  \E i \in 1..Len(rating_changes) : rating_changes[i].v < 0

\* Lines 98-106: reply_versions of has_any_changes, a defaultdict(list).
RECURSIVE ReplyVersionsFrom(_, _, _)
ReplyVersionsFrom(rs, i, acc) ==
    IF i > Len(rs) THEN acc
    ELSE LET reply == rs[i]
             mdates == IF Has(acc, reply.id) THEN Get(acc, reply.id) ELSE <<>>
         IN  ReplyVersionsFrom(rs, i + 1,
                 IF reply.official /\ reply.id # 0 /\ reply.mdate # 0
                 THEN Put(acc, reply.id, Append(mdates, reply.mdate))
                 ELSE acc)

\* Mutant of HasAnyChanges: the distinct mdates are counted over all the
\* replies together, whatever their id.
HasAnyChangesAnyId(rs) ==
    LET reply_versions == ReplyVersionsFrom(rs, 1, <<>>)
    IN  Cardinality(UNION {Set(reply_versions[i].v) : i \in 1..Len(reply_versions)}) > 1

\* has_any_changes, lines 96-111.
HasAnyChanges(rs) ==
    LET reply_versions == ReplyVersionsFrom(rs, 1, <<>>)
    IN  \E i \in 1..Len(reply_versions) : Cardinality(Set(reply_versions[i].v)) > 1

\* Lines 115-121 and 128-135: the ids of the official reviews.
AllReviewIds(rs) == {rs[i].id : i \in {i \in 1..Len(rs) : rs[i].official /\ rs[i].id # 0}}

\* count_reviews, lines 113-122.
CountReviews(rs) == Cardinality(AllReviewIds(rs))

\* Lines 130-138 and 147: reply_versions.get(reply_id, []) of
\* count_review_changes_by_type, as the set line 148 makes of it.
MdatesOf(rs, reply_id) ==
    {rs[i].mdate : i \in {i \in 1..Len(rs) :
                            /\ rs[i].official /\ rs[i].id = reply_id
                            /\ rs[i].mdate # 0}}

\* Lines 147-157: the count that the loop body raises for reply_id.
ChangeType(rs, rating_changes, reply_id) ==
    IF Cardinality(MdatesOf(rs, reply_id)) > 1
    THEN LET rating_change == IF Has(rating_changes, reply_id)
                              THEN Get(rating_changes, reply_id) ELSE 0
         IN  IF rating_change > 0 THEN "increase"
             ELSE IF rating_change < 0 THEN "decrease"
             ELSE "nochange"
    ELSE "nochanges"

\* Mutant of LoopIds: the loop of line 146 runs over the keys of
\* reply_versions, the reviews that have an mdate.
LoopIdsWithMdate(rs) == {id \in AllReviewIds(rs) : MdatesOf(rs, id) # {}}

\* Line 146: the ids the counting loop runs over.
LoopIds(rs) == AllReviewIds(rs)

\* count_review_changes_by_type, lines 124-159.
CountReviewChangesByType(rs) ==
    LET rating_changes == GetRatingChanges(rs)
        Count(type) ==
            Cardinality({id \in LoopIds(rs) : ChangeType(rs, rating_changes, id) = type})
    IN  [increase |-> Count("increase"), decrease |-> Count("decrease"),
         nochange |-> Count("nochange"), nochanges |-> Count("nochanges")]

\* generate_papers_json, lines 655-673: the entry of one submission, as far
\* as it depends on its replies.
PaperOf(rs) == [reviews |-> CountReviews(rs), changes |-> CountReviewChangesByType(rs)]

\* createPaperCard, lines 591-602: the data attributes of the card.
CreatePaperCard(paper) ==
    [hasChange |-> paper.changes.increase + paper.changes.decrease
                       + paper.changes.nochange > 0,
     hasIncrease |-> paper.changes.increase > 0,
     hasDecrease |-> paper.changes.decrease > 0,
     hasRatingnochange |-> paper.changes.nochange > 0,
     hasReviews |-> paper.reviews > 0]

\* renderReplies, lines 869-877: the entries grouped under one reply.id (an
\* entry without id goes under the key "undefined", here 0).
GroupOf(rs, reply_id) == SelectSeq(rs, LAMBDA r : r.id = reply_id)

\* Lines 880-882: Array.prototype.sort is stable; the newest mdate (a missing
\* one counts 0) comes first.
SortNewestFirst(versions) ==
    SortedBy(versions, [i \in 1..Len(versions) |-> <<0 - versions[i].mdate>>])

\* Lines 896-932: the filter class of one reply id.  isReview is read off
\* the newest entry; an official review carries no 'Official_Comment'
\* invitation, and a reply that is no official review is a comment or falls
\* under 'nochanges' with the other replies ("other").  A rating is
\* undefined when 'content', 'rating' or 'value' is missing (NoRating).
FilterType(rs, reply_id) ==
    LET versions == SortNewestFirst(GroupOf(rs, reply_id))
        latest == versions[1]
        oldRating == versions[Len(versions)].rating
        newRating == latest.rating
    IN  IF ~latest.official THEN "other"
        ELSE IF Len(versions) > 1 /\ oldRating # NoRating /\ newRating # NoRating
        THEN IF newRating - oldRating > 0 THEN "increase"
             ELSE IF newRating - oldRating < 0 THEN "decrease"
             ELSE "ratingnochange"
        ELSE "nochanges"

\* renderReplies, lines 863-933: the official reviews it counts under each
\* filter class (countIncrease, countDecrease, countNochange, and the
\* official reviews among countNochanges).
RenderReplies(rs) ==
    LET Count(type) ==
            Cardinality({id \in {rs[i].id : i \in 1..Len(rs)} : FilterType(rs, id) = type})
    IN  [increase |-> Count("increase"), decrease |-> Count("decrease"),
         ratingnochange |-> Count("ratingnochange"), nochanges |-> Count("nochanges")]

\* The caller builds the directReplies list of one submission of the merged
\* dataset.
AppendReply(r) ==
    /\ report = <<>>
    /\ Len(replies) < MaxReplies
    /\ replies' = Append(replies, r)
    /\ UNCHANGED <<report, scope, mergeVars, mainVars, crawlVars, cacheVars>>

\* The classifier entry points and the detail page's renderReplies, applied
\* to the list.
Classify ==
    /\ report = <<>>
    /\ report' = <<[rating_changes |-> GetRatingChanges(replies),
                    reply_changes |-> CountReplyChanges(replies),
                    rating_increase |-> HasRatingIncrease(replies),
                    rating_decrease |-> HasRatingDecrease(replies),
                    any_changes |-> HasAnyChanges(replies),
                    reviews |-> CountReviews(replies),
                    paper |-> PaperOf(replies),
                    card |-> CreatePaperCard(PaperOf(replies)),
                    filters |-> RenderReplies(replies)]>>
    /\ UNCHANGED <<replies, scope, mergeVars, mainVars, crawlVars, cacheVars>>

NextSite ==
    \/ \E r \in SiteReplies : AppendReply(r)
    \/ Classify

SpecSite == InitMainSpec /\ [][NextSite]_vars

\* ------------------------------------- generate_static_site.py, cache-manager.js
\* Versions are the timestamps main() writes to papers-meta.json (line 1250),
\* numbered 1..MaxVersions in their order; 0 stands for null, a missing
\* item, an empty cache.
\* The site is generated again (lines 1243-1256): a new data file and a new
\* meta.version.
Deploy ==
    /\ serverVersion < MaxVersions
    /\ serverVersion' = serverVersion + 1
    /\ UNCHANGED <<cachedPapers, localMeta, httpCache, loadedVersion, last_load>>
    /\ UNCHANGED <<scope, mergeVars, mainVars, siteVars, crawlVars>>

CallNumber == IF last_load = <<>> THEN 0 ELSE last_load[1].call

\* What a successful request of the data URL delivers: with the cache-busting
\* parameter the URL is new to the browser and the server's file is fetched;
\* without it the browser may answer from the copy its HTTP cache keeps for
\* the plain URL (from_cache).
Delivered(bust, from_cache) ==
    IF ~bust /\ from_cache /\ httpCache # 0 THEN httpCache ELSE serverVersion

\* Mutant of LoadPapers: localStorage is written after the data has arrived
\* (line 1292 moved behind line 1299).
LoadPapersStoringLast(meta_ok, data_ok, from_cache) ==
    /\ CallNumber < MaxLoads
    /\ IF cachedPapers # 0
       THEN /\ last_load' = <<[call |-> CallNumber + 1, url |-> "none", returned |-> TRUE]>>
            /\ UNCHANGED <<cachedPapers, localMeta, httpCache, loadedVersion>>
       ELSE IF ~meta_ok
       THEN /\ last_load' = <<[call |-> CallNumber + 1, url |-> "none", returned |-> FALSE]>>
            /\ UNCHANGED <<cachedPapers, localMeta, httpCache, loadedVersion>>
       ELSE LET bust == localMeta # serverVersion
                papers == Delivered(bust, from_cache)
            IN  /\ last_load' = <<[call |-> CallNumber + 1,
                                   url |-> IF bust THEN "busting" ELSE "plain",
                                   returned |-> data_ok]>>
                /\ IF data_ok
                   THEN /\ localMeta' = serverVersion
                        /\ cachedPapers' = papers
                        /\ loadedVersion' = papers
                        /\ httpCache' = IF bust THEN httpCache ELSE papers
                   ELSE UNCHANGED <<localMeta, cachedPapers, loadedVersion, httpCache>>
    /\ UNCHANGED serverVersion
    /\ UNCHANGED <<scope, mergeVars, mainVars, siteVars, crawlVars>>

\* loadPapers, lines 1275-1306, one whole call.  meta_ok, data_ok: whether
\* the fetch of line 1283 and the fetch of line 1299 deliver JSON; a fetch
\* that fails rejects, and the call throws at that line.
LoadPapers(meta_ok, data_ok, from_cache) ==
    /\ CallNumber < MaxLoads
    /\ IF cachedPapers # 0
       THEN /\ last_load' = <<[call |-> CallNumber + 1, url |-> "none", returned |-> TRUE]>>
            /\ UNCHANGED <<cachedPapers, localMeta, httpCache, loadedVersion>>
       ELSE IF ~meta_ok
       THEN /\ last_load' = <<[call |-> CallNumber + 1, url |-> "none", returned |-> FALSE]>>
            /\ UNCHANGED <<cachedPapers, localMeta, httpCache, loadedVersion>>
       ELSE LET bust == localMeta # serverVersion
                papers == Delivered(bust, from_cache)
            IN  /\ last_load' = <<[call |-> CallNumber + 1,
                                   url |-> IF bust THEN "busting" ELSE "plain",
                                   returned |-> data_ok]>>
                /\ localMeta' = serverVersion
                /\ IF data_ok
                   THEN /\ cachedPapers' = papers
                        /\ loadedVersion' = papers
                        /\ httpCache' = IF bust THEN httpCache ELSE papers
                   ELSE UNCHANGED <<cachedPapers, loadedVersion, httpCache>>
    /\ UNCHANGED serverVersion
    /\ UNCHANGED <<scope, mergeVars, mainVars, siteVars, crawlVars>>

\* clear, lines 1309-1313.
Clear ==
    /\ localMeta' = 0
    /\ cachedPapers' = 0
    /\ UNCHANGED <<serverVersion, httpCache, loadedVersion, last_load>>
    /\ UNCHANGED <<scope, mergeVars, mainVars, siteVars, crawlVars>>

\* The page is loaded again: a new PapersCache (line 472 of the page script,
\* constructor lines 1269-1272); localStorage and the HTTP cache stay.
Reload ==
    /\ cachedPapers' = 0
    /\ UNCHANGED <<localMeta, serverVersion, httpCache, loadedVersion, last_load>>
    /\ UNCHANGED <<scope, mergeVars, mainVars, siteVars, crawlVars>>

NextCache ==
    \/ Deploy
    \/ \E meta_ok \in BOOLEAN, data_ok \in BOOLEAN, from_cache \in BOOLEAN :
          LoadPapers(meta_ok, data_ok, from_cache)
    \/ Clear
    \/ Reload

InitCacheSpec ==
    scope = "cache" /\ InitMerge /\ InitMain /\ InitSite /\ InitLoop /\ InitCache

SpecCache == InitCacheSpec /\ [][NextCache]_vars

\* ===================================================================== claims
\* Vocabulary of the claims, written without the operators of the model.
Range(q) == {q[i] : i \in 1..Len(q)}
DatedIdx(files) == {i \in 1..Len(files) : files[i].date_str # Merged}
GreatestDated(files) ==
    {i \in DatedIdx(files) :
        \A j \in DatedIdx(files) : files[j].date_str <= files[i].date_str}
DistinctChronokeys(files) ==
    \A i, j \in 1..Len(files) : i # j => files[i].date_str # files[j].date_str
IndexPerms(n) == {f \in [1..n -> 1..n] : \A i, j \in 1..n : i # j => f[i] # f[j]}
Permute(q, f) == [i \in 1..Len(q) |-> q[f[i]]]
RemoveAt(q, i) == [j \in 1..(Len(q) - 1) |-> IF j < i THEN q[j] ELSE q[j + 1]]
InsertAt(q, i, x) ==
    [j \in 1..(Len(q) + 1) |-> IF j < i THEN q[j] ELSE IF j = i THEN x ELSE q[j - 1]]
KeyOf(r) == <<r.number, r.version, r.mdate>>
NonDecreasing(q) ==
    \A i, j \in 1..Len(q) : i < j => ~TupleLess(KeyOf(q[j]), KeyOf(q[i]))
PosIn(q, x) == CHOOSE i \in 1..Len(q) : q[i] = x
\* The review ids an input list carries under submission id s.
InputReviewIds(files, s) ==
    UNION {UNION {IF sub.id = s THEN {r.id : r \in Range(Replies(sub))} ELSE {} :
                     sub \in Range(files[f].submissions)} :
              f \in 1..Len(files)} \ {0}

\* C1: when the list holds a dated snapshot, every returned submission has the
\* id and the metadata (number) of one record of a dated snapshot with the
\* greatest chronokey, the same snapshot for all of them.
C1_MetadataFromLatestDated ==
    (pc = "done" /\ DatedIdx(arg) # {}) =>
        \E i \in GreatestDated(arg) :
            \A p \in 1..Len(result) :
                \E j \in 1..Len(arg[i].submissions) :
                    /\ arg[i].submissions[j].id = result[p].id
                    /\ arg[i].submissions[j].number = result[p].number

\* C1 witness: the newest snapshot is listed first, an older one after it
\* gives the same submission other metadata, and the submission is returned.
C1_Witness ==
    /\ pc = "done" /\ Len(arg) = 2 /\ result # <<>>
    /\ arg[1].date_str = 2 /\ arg[2].date_str = 1
    /\ \E j \in 1..Len(arg[2].submissions) :
          /\ arg[2].submissions[j].id = result[1].id
          /\ arg[2].submissions[j].number # result[1].number

\* C2: at every step of the collection no version list holds two entries with
\* equal (version, mdate), every entry is filed under its own id, and so no
\* returned directReplies holds two entries of one id with equal
\* (version, mdate).
C2_NoDuplicateVersion ==
    /\ \A s \in 1..Len(review_collections) :
          \A r \in 1..Len(review_collections[s].v) :
              LET versions == review_collections[s].v[r].v
              IN  \A i, j \in 1..Len(versions) :
                      /\ versions[i].id = review_collections[s].v[r].k
                      /\ i # j => <<versions[i].version, versions[i].mdate>>
                                  # <<versions[j].version, versions[j].mdate>>
    /\ pc = "done" =>
          \A p \in 1..Len(result) :
              LET entries == result[p].directReplies
              IN  \A i, j \in 1..Len(entries) :
                      (i # j /\ entries[i].id = entries[j].id) =>
                          <<entries[i].version, entries[i].mdate>>
                          # <<entries[j].version, entries[j].mdate>>

\* C2 witness: the collection has just passed over an entry whose submission,
\* id, version and mdate equal those of an entry seen before it.
C2_Witness ==
    /\ pc = "collect" /\ k > 2
    /\ LET items == WorkItems(all_files_data)
       IN  /\ items[k - 1].kind = "rev" /\ items[k - 1].review.id # 0
           /\ \E i \in 1..(k - 2) :
                 /\ items[i].kind = "rev"
                 /\ items[i].sub_id = items[k - 1].sub_id
                 /\ items[i].review.id = items[k - 1].review.id
                 /\ items[i].review.version = items[k - 1].review.version
                 /\ items[i].review.mdate = items[k - 1].review.mdate

\* C3: every submission id of the metadata-source snapshot is returned, and
\* every review id found under it in any input snapshot has an entry in its
\* directReplies.
C3_NoReviewLost ==
    pc = "done" =>
        \A j \in 1..Len(all_files_data[base].submissions) :
            LET s == all_files_data[base].submissions[j].id
            IN  s # 0 =>
                  \E p \in 1..Len(result) :
                      /\ result[p].id = s
                      /\ \A rid \in InputReviewIds(arg, s) :
                            \E q \in 1..Len(result[p].directReplies) :
                                result[p].directReplies[q].id = rid

\* C3 witness: a returned submission has a review that only an older snapshot
\* (not the metadata source) carries.
C3_Witness ==
    /\ pc = "done" /\ result # <<>>
    /\ \E rid \in InputReviewIds(arg, result[1].id) :
          \A sub \in Range(SortFiles(arg)[base].submissions) :
              \A r \in Range(Replies(sub)) : r.id # rid

\* The returned directReplies of one submission is the flattened union of
\* its version lists, non-decreasing by (number, version, mdate), entries
\* with equal keys in the order the flattening met them.
SortedFlattenedUnion(sub) ==
    LET entries == sub.directReplies
        flat == Concat([i \in 1..Len(Get(review_collections, sub.id)) |->
                           Get(review_collections, sub.id)[i].v])
    IN  /\ Len(entries) = Len(flat)
        /\ Range(entries) = Range(flat)
        /\ Cardinality(Range(flat)) = Len(flat)
        /\ NonDecreasing(entries)
        /\ \A i, j \in 1..Len(entries) :
              (i < j /\ KeyOf(entries[i]) = KeyOf(entries[j])) =>
                  PosIn(flat, entries[i]) < PosIn(flat, entries[j])

\* The same snapshots in the order f give every submission its entries in
\* the same order: a submission returned with the same entries has them in
\* the same order.
SameRepliesInOrder(f) ==
    LET other == MergeReviews(Permute(arg, f))
    IN  \A p \in 1..Len(other), q \in 1..Len(result) :
            (other[p].id = result[q].id
             /\ Range(other[p].directReplies) = Range(result[q].directReplies))
            => other[p].directReplies = result[q].directReplies

\* C4 (as amended): every returned directReplies is the flattened union of the
\* submission's version lists in non-decreasing (number, version, mdate)
\* order, equal keys in flattening order; and the order is the same for every
\* ordering of the same snapshots when their chronokeys are pairwise distinct.
C4_SortedUnionReproducible ==
    pc = "done" =>
        /\ \A p \in 1..Len(result) : SortedFlattenedUnion(result[p])
        /\ DistinctChronokeys(arg) =>
              \A f \in IndexPerms(Len(arg)) : SameRepliesInOrder(f)

\* C4 as stated: the order is the same for the same set of input snapshots,
\* whatever their chronokeys.
C4_Original ==
    pc = "done" =>
        /\ \A p \in 1..Len(result) : SortedFlattenedUnion(result[p])
        /\ \A f \in IndexPerms(Len(arg)) : SameRepliesInOrder(f)

\* C4 witness: two snapshots with different chronokeys, listed newest first,
\* each give a returned submission an entry of another review, and the two
\* entries have equal keys.
C4_Witness ==
    /\ pc = "done" /\ Len(arg) = 2 /\ arg[1].date_str = 2 /\ arg[2].date_str = 1
    /\ \E p \in 1..Len(result) :
          /\ Len(result[p].directReplies) = 2
          /\ result[p].directReplies[1].id # result[p].directReplies[2].id
          /\ KeyOf(result[p].directReplies[1]) = KeyOf(result[p].directReplies[2])
          /\ \A f \in 1..2 : \A sub \in Range(arg[f].submissions) :
                Len(Replies(sub)) = 1

\* analyze_data's counts of the merge of a list.
StatsOf(files) == AnalyzeData(MergeReviews(files))

\* C5 as stated: a list with one snapshot more never has fewer unique reviews
\* or fewer review entries than the list without it.
C5_Monotone ==
    pc = "done" =>
        \A i \in 1..Len(arg) :
            Len(arg) > 1 =>
                /\ AnalyzeData(result).unique_reviews
                       >= StatsOf(RemoveAt(arg, i)).unique_reviews
                /\ AnalyzeData(result).total_review_entries
                       >= StatsOf(RemoveAt(arg, i)).total_review_entries

\* C6 as stated: a run of main that found a merged file leaves no count lower
\* than it was before the merge.
C6_StatsNeverDecrease ==
    (runs > 0 /\ existing_stats # NoStats /\ merged_stats # NoStats) =>
        /\ merged_stats.total_review_entries >= existing_stats.total_review_entries
        /\ merged_stats.unique_reviews >= existing_stats.unique_reviews
        /\ merged_stats.multi_version_count >= existing_stats.multi_version_count

\* C7 (as amended): when the chronokeys of the list are pairwise distinct,
\* every permutation of the list is merged to the identical dataset.
C7_PermutationInvariant ==
    (pc = "done" /\ DistinctChronokeys(arg)) =>
        \A f \in IndexPerms(Len(arg)) : MergeReviews(Permute(arg, f)) = result

\* C7 as stated: every permutation of every list is merged to the identical
\* dataset.
C7_Original ==
    pc = "done" =>
        \A f \in IndexPerms(Len(arg)) : MergeReviews(Permute(arg, f)) = result

\* C7 witness: two snapshots with different chronokeys, listed newest first,
\* that disagree on the metadata of a returned submission which has reviews.
C7_Witness ==
    /\ pc = "done" /\ Len(arg) = 2 /\ DistinctChronokeys(arg)
    /\ arg # SortFiles(arg)
    /\ result # <<>> /\ result[1].directReplies # <<>>
    /\ \E sub \in Range(arg[2].submissions) :
          sub.id = result[1].id /\ sub.number # result[1].number

\* The merge of a returned dataset M with itself, as the prior merge and as
\* the one snapshot dated d.
Remerge(M, d) ==
    MergeReviews(<<[date_str |-> Merged, submissions |-> M],
                   [date_str |-> d, submissions |-> M]>>)

\* C8 (as amended): merging a returned dataset with itself returns the same
\* submissions in the same order, each with the same review entries, in
\* non-decreasing (number, version, mdate) order: the order of M but for
\* entries of different reviews whose keys are equal.
C8_RemergeSameEntries ==
    pc = "done" =>
        \A d \in Dates :
            LET again == Remerge(result, d)
            IN  /\ Len(again) = Len(result)
                /\ \A p \in 1..Len(result) :
                      /\ [again[p] EXCEPT !.directReplies = <<>>]
                            = [result[p] EXCEPT !.directReplies = <<>>]
                      /\ Len(again[p].directReplies) = Len(result[p].directReplies)
                      /\ Range(again[p].directReplies) = Range(result[p].directReplies)
                      /\ NonDecreasing(again[p].directReplies)
                      /\ \A i, j \in 1..Len(result[p].directReplies) :
                            LET a == result[p].directReplies[i]
                                b == result[p].directReplies[j]
                            IN  (i < j /\ (a.id = b.id \/ KeyOf(a) # KeyOf(b))) =>
                                    PosIn(again[p].directReplies, a)
                                        < PosIn(again[p].directReplies, b)

\* C8 as stated: merging a returned dataset with itself returns it unchanged,
\* entry order included.
C8_Original ==
    pc = "done" => \A d \in Dates : Remerge(result, d) = result

\* C8 witness: a returned dataset in which one review has two versions and
\* another review has an entry.
C8_Witness ==
    /\ pc = "done" /\ result # <<>>
    /\ \E i, j, l \in 1..Len(result[1].directReplies) :
          /\ i # j
          /\ result[1].directReplies[i].id = result[1].directReplies[j].id
          /\ result[1].directReplies[l].id # result[1].directReplies[i].id

\* C9 as stated: supplying a snapshot of the list a second time, at any
\* place, leaves total_review_entries as it is.
C9_SameSnapshotTwice ==
    pc = "done" =>
        \A i \in 1..Len(arg) : \A at \in 1..(Len(arg) + 1) :
            StatsOf(InsertAt(arg, at, arg[i])).total_review_entries
                = AnalyzeData(result).total_review_entries

\* C10 as stated: when merge_reviews returns, the caller's list is as it was
\* at the call: same order, same records, same directReplies.
C10_InputsUnchanged ==
    pc = "done" => all_files_data = arg

\* C11 as stated: once merge_reviews has chosen the snapshot whose submissions
\* become latest_submissions, that snapshot's chronokey is not 'merged'.
C11_BaseNeverSentinel ==
    pc \in {"collect", "reattached", "done"} =>
        all_files_data[base].date_str # Merged

\* C12 as stated: merge_reviews returns a dataset only for a list that holds
\* a dated snapshot.
C12_AllSentinelFails ==
    pc = "done" => DatedIdx(arg) # {}

\* C13: merge_reviews on the empty list ends in the IndexError of line 117
\* and returns nothing, and a run of main that finds no raw file ends at line
\* 240 and leaves the merged file, present or not, as it is.
C13_EmptyInputsWriteNothing ==
    [][/\ (pc = "sorted" /\ pc' # pc /\ all_files_data = <<>>) =>
             (pc' = "raised" /\ result' = result)
       /\ (raw = <<>> /\ runs' # runs) =>
             (main_outcome' = "no_raw" /\ output_file' = output_file)]_vars

\* C13 witness: the empty list has raised, and a run of main has ended for
\* want of raw files in a directory that holds a merged file.
C13_Witness ==
    /\ pc = "raised" /\ arg = <<>>
    /\ main_outcome = "no_raw" /\ raw = <<>>
    /\ output_file # <<>> /\ output_file[1] # <<>>

\* C14: a run of main in which a load or the merge fails leaves the merged
\* file as it was, and the file changes only in a run that ends with the
\* save, to what merge_reviews returned for the files loaded.
C14_FailedRunKeepsOutput ==
    [][/\ (runs' # runs /\ main_outcome' \in {"load_failed", "merge_failed"}) =>
             output_file' = output_file
       /\ output_file' # output_file =>
             /\ runs' # runs /\ main_outcome' = "saved"
             /\ output_file' = <<MergeReviews(MainFiles(output_file, raw))>>]_vars

\* C14 witness: a run over raw files has failed in a directory whose merged
\* file holds submissions.
C14_Witness ==
    /\ main_outcome \in {"load_failed", "merge_failed"}
    /\ raw # <<>>
    /\ output_file # <<>> /\ output_file[1] # <<>>

\* The records with an id of a list of records.
WithId(q) == SelectSeq(q, LAMBDA x : x.id # 0)

\* A snapshot list without its ID-less submissions and ID-less review entries.
StripIdless(files) ==
    [f \in 1..Len(files) |->
        [files[f] EXCEPT !.submissions =
            LET subs == WithId(files[f].submissions)
            IN  [j \in 1..Len(subs) |->
                    [subs[j] EXCEPT !.directReplies = WithId(@)]]]]

\* C15: merge_reviews raises on the empty list only; what it returns holds no
\* ID-less submission and no ID-less review entry, and is what it returns for
\* the list without its ID-less records.
C15_IdlessSkipped ==
    /\ pc = "raised" => arg = <<>>
    /\ pc = "done" =>
          /\ StripIdless(arg) # arg => result = MergeReviews(StripIdless(arg))
          /\ \A p \in 1..Len(result) :
                /\ result[p].id # 0
                /\ \A q \in 1..Len(result[p].directReplies) :
                      result[p].directReplies[q].id # 0

\* C15 witness: two snapshots, one with an ID-less submission that has a
\* review, one with a submission whose review entry has no id, and a
\* submission is returned.
C15_Witness ==
    /\ pc = "done" /\ Len(arg) = 2 /\ result # <<>>
    /\ \E f \in 1..2 : \E sub \in Range(arg[f].submissions) :
          sub.id = 0 /\ \E r \in Range(Replies(sub)) : r.id # 0
    /\ \E f \in 1..2 : \E sub \in Range(arg[f].submissions) :
          sub.id # 0 /\ \E r \in Range(Replies(sub)) : r.id = 0

\* Vocabulary of the classifier claims.  The entries of review id in a list
\* of replies (indices), their mdates, and the entries with the least and
\* with the greatest mdate.
EntriesOf(rs, id) == {i \in 1..Len(rs) : rs[i].id = id}
MdateValues(rs, id) == {rs[i].mdate : i \in EntriesOf(rs, id)}
Earliest(rs, id) ==
    {i \in EntriesOf(rs, id) : \A j \in EntriesOf(rs, id) : rs[i].mdate <= rs[j].mdate}
Latest(rs, id) ==
    {i \in EntriesOf(rs, id) : \A j \in EntriesOf(rs, id) : rs[j].mdate <= rs[i].mdate}
\* A review of the list: some entry has the id, and every entry with it is an
\* official review with an mdate.
IsReview(rs, id) ==
    /\ EntriesOf(rs, id) # {}
    /\ \A i \in EntriesOf(rs, id) : rs[i].official /\ rs[i].mdate # 0
TypeOfDelta(delta) ==
    IF delta > 0 THEN "increase" ELSE IF delta < 0 THEN "decrease" ELSE "nochange"

\* C16 as stated: a review with at least two distinct mdates, one earliest
\* and one latest version, both with a numeric rating (0 included), has
\* delta = rating(latest) - rating(earliest) in get_rating_changes and is
\* counted as increase, decrease or nochange by the sign of delta.
C16_DeltaClassifies ==
    report # <<>> =>
        \A id \in 1..2 :
            (/\ IsReview(replies, id)
             /\ Cardinality(MdateValues(replies, id)) > 1
             /\ Cardinality(Earliest(replies, id)) = 1
             /\ Cardinality(Latest(replies, id)) = 1
             /\ \A i \in Earliest(replies, id) \cup Latest(replies, id) :
                    replies[i].rating # NoRating)
            => LET old == replies[CHOOSE i \in Earliest(replies, id) : TRUE].rating
                   new == replies[CHOOSE i \in Latest(replies, id) : TRUE].rating
               IN  /\ Has(report[1].rating_changes, id)
                   /\ Get(report[1].rating_changes, id) = new - old
                   /\ ChangeType(replies, report[1].rating_changes, id)
                          = TypeOfDelta(new - old)

\* C17 as stated: a review whose entries have fewer than two distinct mdate
\* values is counted as never edited, get_rating_changes reports no change
\* for it, and a list of such reviews has no rating increase, no rating
\* decrease and no reply change.
C17_OneMdateUnchanged ==
    report # <<>> =>
        LET Unedited(id) == /\ EntriesOf(replies, id) # {}
                            /\ \A i \in EntriesOf(replies, id) : replies[i].official
                            /\ Cardinality(MdateValues(replies, id)) < 2
        IN  /\ \A id \in 1..2 :
                  Unedited(id) =>
                      /\ ChangeType(replies, report[1].rating_changes, id) = "nochanges"
                      /\ Has(report[1].rating_changes, id) =>
                             Get(report[1].rating_changes, id) = 0
            /\ (\A i \in 1..Len(replies) : Unedited(replies[i].id)) =>
                  /\ ~report[1].rating_increase
                  /\ ~report[1].rating_decrease
                  /\ report[1].reply_changes = 0

\* C18 as stated: a review whose earliest or whose latest versions carry no
\* rating is counted as nochange when it has two distinct mdates and as
\* never edited otherwise.
C18_UnratedEndpointNoDelta ==
    report # <<>> =>
        \A id \in 1..2 :
            (/\ IsReview(replies, id)
             /\ \/ \A i \in Earliest(replies, id) : replies[i].rating = NoRating
                \/ \A i \in Latest(replies, id) : replies[i].rating = NoRating)
            => ChangeType(replies, report[1].rating_changes, id)
                  = (IF Cardinality(MdateValues(replies, id)) > 1
                     THEN "nochange" ELSE "nochanges")

\* C19: has_any_changes is true exactly when count_review_changes_by_type
\* counts a review as increase, decrease or nochange, and the card's
\* hasChange is that same condition.
C19_AnyChangesIffCounted ==
    report # <<>> =>
        LET changes == report[1].paper.changes
            counted == changes.increase + changes.decrease + changes.nochange > 0
        IN  /\ report[1].any_changes = counted
            /\ report[1].card.hasChange = counted

\* C19 witness: a list with an edited official review and a reply that is
\* not an official review, classified as changed.
C19_Witness ==
    /\ report # <<>> /\ report[1].any_changes
    /\ \E i \in 1..Len(replies) : ~replies[i].official
    /\ \E i, j \in 1..Len(replies) :
          /\ replies[i].id = replies[j].id /\ replies[i].official /\ replies[j].official
          /\ replies[i].mdate # replies[j].mdate

\* C20: the four counts of count_review_changes_by_type add up to
\* count_reviews, the number of distinct ids of official reviews.
C20_CountsPartitionReviews ==
    report # <<>> =>
        LET changes == report[1].paper.changes
        IN  /\ changes.increase + changes.decrease + changes.nochange
                   + changes.nochanges = report[1].reviews
            /\ report[1].reviews =
                  Cardinality({replies[i].id :
                                  i \in {i \in 1..Len(replies) :
                                            replies[i].official /\ replies[i].id # 0}})
            /\ report[1].paper.reviews = report[1].reviews

\* C20 witness: two official reviews, one edited and one never edited,
\* counted under different types.
C20_Witness ==
    /\ report # <<>> /\ report[1].reviews = 2
    /\ report[1].paper.changes.nochanges = 1
    /\ report[1].paper.changes.nochange = 1

\* ---------------------------------------------------------------- analyze_data
\* The list analyze_data was handed, the review IDs of one record and the
\* entries that carry one of them.
Analyzed == all_files_data[1].submissions
ReviewIdsIn(sub) == {Replies(sub)[i].id : i \in 1..Len(Replies(sub))} \ {0}
EntriesWithId(sub, id) == {i \in 1..Len(Replies(sub)) : Replies(sub)[i].id = id}
HasMultiVersionReview(sub) ==
    \E id \in ReviewIdsIn(sub) : Cardinality(EntriesWithId(sub, id)) > 1
ExtraVersions(sub) == Len(Replies(sub)) - Cardinality(ReviewIdsIn(sub))
DistributionAt(stats, e) ==
    IF e \in DOMAIN stats.version_distribution THEN stats.version_distribution[e] ELSE 0

\* C21: for every submission list, multi_version_count is the number of
\* submissions in which some review ID occurs in more than one entry of
\* directReplies, lists with ID-less entries included.
C21_MultiVersionCount ==
    pc = "analyzed" =>
        merged_stats.multi_version_count =
            Cardinality({i \in 1..Len(Analyzed) : HasMultiVersionReview(Analyzed[i])})

\* C22: for every submission list and every count e of at least one,
\* version_distribution maps e to the number of submissions whose number of
\* review entries exceeds their number of distinct review IDs by e; it has
\* no other key.
C22_VersionDistribution ==
    pc = "analyzed" =>
        /\ \A e \in 1..(MaxReviews + 1) :
              DistributionAt(merged_stats, e) =
                  Cardinality({i \in 1..Len(Analyzed) : ExtraVersions(Analyzed[i]) = e})
        /\ DOMAIN merged_stats.version_distribution \subseteq 1..(MaxReviews + 1)

\* C22 as stated: the same for every count, zero included.
C22_Original ==
    pc = "analyzed" =>
        \A e \in 0..(MaxReviews + 1) :
            DistributionAt(merged_stats, e) =
                Cardinality({i \in 1..Len(Analyzed) : ExtraVersions(Analyzed[i]) = e})

\* Two submissions with one extra entry each, one of them an ID-less entry.
C22_Witness ==
    /\ pc = "analyzed"
    /\ DistributionAt(merged_stats, 1) = 2
    /\ \E i \in 1..Len(Analyzed) :
          HasMultiVersionReview(Analyzed[i]) /\ ExtraVersions(Analyzed[i]) = 1
    /\ \E i \in 1..Len(Analyzed) : ~HasMultiVersionReview(Analyzed[i])

\* ------------------------------------------------ the metadata source's records
\* The snapshot merge_reviews takes the submission records from (an index of
\* the sorted argument), the submission IDs it holds, and the entries the
\* argument lists under one submission ID.
SourceOf(files) ==
    LET sorted == SortFiles(files)
        D == GreatestDated(sorted)
    IN  IF D # {} /\ sorted[Max(D)].submissions # <<>> THEN Max(D) ELSE Len(sorted)
SourceIds(files) ==
    {sub.id : sub \in Range(SortFiles(files)[SourceOf(files)].submissions)} \ {0}
EntriesUnder(files, id) ==
    UNION {UNION {Range(Replies(sub)) : sub \in {x \in Range(files[f].submissions) : x.id = id}} :
              f \in 1..Len(files)}
AbsentIds(files) ==
    {id \in SubIds \ {0} : EntriesUnder(files, id) # {}} \ SourceIds(files)

FoldOrdered(files) ==
    \A i, j \in 1..Len(files) :
        i < j => /\ files[j].date_str = Merged => files[i].date_str = Merged
                 /\ (files[i].date_str # Merged /\ files[j].date_str # Merged)
                        => files[i].date_str <= files[j].date_str
SameSnapshots(f, g) ==
    /\ Len(f) = Len(g)
    /\ \A x \in Range(f) \cup Range(g) :
          Cardinality({i \in 1..Len(f) : f[i] = x}) = Cardinality({i \in 1..Len(g) : g[i] = x})
\* The key of a review entry in the Version Store, the first of the visited
\* entries 1..n that has a given key, and what the store holds under a key.
IsEntry(it) == it.kind = "rev" /\ it.review.id # 0
StoreKey(it) == <<it.sub_id, it.review.id, it.review.version, it.review.mdate>>
FirstWithKey(items, n, key) ==
    LET S == {j \in 1..n : IsEntry(items[j]) /\ StoreKey(items[j]) = key}
    IN  items[CHOOSE x \in S : \A y \in S : x <= y].review
StoredUnder(rc, key) ==
    IF Has(rc, key[1]) /\ Has(Get(rc, key[1]), key[2])
    THEN SelectSeq(Get(Get(rc, key[1]), key[2]),
                   LAMBDA e : e.version = key[3] /\ e.mdate = key[4])
    ELSE <<>>

\* C24: the snapshots are visited prior merge first, then by ascending
\* chronokey; after every visited entry the Version Store holds under the
\* entry's (submission ID, review ID, version, mdate) the first visited entry
\* with that key and nothing else, so a later entry with a stored key changes
\* nothing; and every returned entry is the first with its key in that order.
C24_FirstSnapshotWins ==
    /\ pc \in {"sorted", "collect"} =>
          FoldOrdered(all_files_data) /\ SameSnapshots(all_files_data, arg)
    /\ pc = "collect" =>
          LET items == WorkItems(all_files_data)
          IN  \A j \in 1..(k - 1) :
                  IsEntry(items[j]) =>
                      StoredUnder(review_collections, StoreKey(items[j]))
                          = <<FirstWithKey(items, k - 1, StoreKey(items[j]))>>
    /\ pc = "done" =>
          LET items == WorkItems(SortFiles(arg))
          IN  \A p \in 1..Len(result) :
                  \A e \in Range(Replies(result[p])) :
                      e = FirstWithKey(items, Len(items),
                                       <<result[p].id, e.id, e.version, e.mdate>>)

\* C24 witness: the prior merge and a dated snapshot, listed after it or
\* before it, carry entries with one key and different content, and the
\* returned entry is the prior merge's.
C24_Witness ==
    /\ pc = "done" /\ Len(arg) = 2 /\ result # <<>>
    /\ arg[1].date_str # Merged /\ arg[2].date_str = Merged
    /\ \E e1 \in EntriesUnder(<<arg[1]>>, result[1].id) :
          \E e2 \in EntriesUnder(<<arg[2]>>, result[1].id) :
              /\ e1 # e2 /\ e1.id = e2.id
              /\ e1.version = e2.version /\ e1.mdate = e2.mdate
              /\ Replies(result[1]) = <<e2>>

\* -------------------------------------------------- one submission per source ID
\* The records of the metadata source, and the consolidated version list of
\* one submission ID.
SourceRecords(files) == SortFiles(files)[SourceOf(files)].submissions
Consolidated(files, id) ==
    LET rc == Collect(SortFiles(files))
    IN  IF Has(rc, id) THEN AllReviewVersions(Get(rc, id)) ELSE <<>>

\* C25: the output holds exactly one submission for each distinct non-empty
\* ID of the metadata-source snapshot and no other, and the directReplies of
\* each is the consolidated version list (entries with a review ID only),
\* whatever list the metadata source's record held.
C25_OnePerSourceId ==
    pc = "done" =>
        /\ {result[p].id : p \in 1..Len(result)} = SourceIds(arg)
        /\ Len(result) = Cardinality(SourceIds(arg))
        /\ \A p \in 1..Len(result) :
              /\ result[p].hasDetails
              /\ result[p].directReplies = Consolidated(arg, result[p].id)
              /\ \A e \in Range(result[p].directReplies) : e.id # 0

\* C25 witness: the metadata source lists a submission whose own list is
\* not the consolidated one (it holds an ID-less entry, or lacks an entry of
\* an older snapshot), and the submission is returned.
C25_Witness ==
    /\ pc = "done" /\ result # <<>>
    /\ \E sub \in Range(SourceRecords(arg)) :
          /\ sub.id = result[1].id
          /\ \E e \in Range(Replies(sub)) : e.id = 0
          /\ Replies(sub) # Replies(result[1])

\* C26: when every snapshot of a non-empty list has an empty submission
\* list, merge_reviews raises and returns no dataset (so that main has
\* nothing to save).
C26_AllEmptyFails ==
    (arg # <<>> /\ \A f \in 1..Len(arg) : arg[f].submissions = <<>>) =>
        pc \notin {"collect", "reattached", "done"}

\* ------------------------------------------------------------ crawl_submissions
\* C27: at every point of the loop all_notes is the concatenation, in offset
\* order, of the pages received for the offsets 0, limit, 2*limit, ... below
\* the current offset, one page for each; and a request that raises leaves
\* all_notes and offset as they were and the loop at the same request.
C27_PagesInOffsetOrder ==
    /\ [](/\ all_notes = Concat([i \in 1..Len(pages) |-> pages[i].notes])
          /\ \A i \in 1..Len(pages) : pages[i].offset = (i - 1) * limit
          /\ offset = Len(pages) * limit)
    /\ [][last_response' = "raised" =>
             (all_notes' = all_notes /\ offset' = offset /\ crawl_pc' = "request")]_vars

\* C27 witness: two pages were received and a request raised.
C27_Witness ==
    /\ Len(pages) = 2 /\ retries >= 1 /\ crawl_pc = "returned"
    /\ Len(all_notes) = Len(pages[1].notes) + Len(pages[2].notes)

\* C28: crawl_submissions returns only upon a response whose 'notes' is
\* empty or absent, never upon a request that raised, whatever the number of
\* failed requests; and it returns in the end when repeated requests
\* succeed in the end and the server runs out of pages.
C28_ReturnsOnlyOnEmptyPage ==
    /\ [](crawl_pc = "returned" => last_response \in {"empty", "absent"})
    /\ [](last_response = "raised" => crawl_pc = "request")
    /\ <>(crawl_pc = "returned")

\* C28 witness: the crawler returned after MaxRetries failed requests, with
\* every page of the server.
C28_Witness ==
    /\ crawl_pc = "returned" /\ retries = MaxRetries /\ Len(pages) = MaxPages
    /\ last_response = "empty"

\* ------------------------------------------------------------------ PapersCache
\* C29: a loadPapers call that requests the data file while the server's
\* version differs from the version of the data the client last loaded
\* requests it with the cache-busting parameter, and the version in
\* localStorage changes to a version only when the data of that version has
\* been loaded; so the load after a failed data fetch is cache-busting.
C29_StaleDataRefetched ==
    [][/\ (CallNumber' # CallNumber /\ last_load'[1].url # "none"
              /\ serverVersion # loadedVersion)
            => last_load'[1].url = "busting"
       /\ (localMeta' # localMeta /\ localMeta' # 0) => loadedVersion' = localMeta']_vars

\* ------------------------------------------------- list page and detail page
\* C30: for every directReplies list, the numbers of official reviews that
\* renderReplies puts in the filter classes increase, decrease,
\* ratingnochange and nochanges are the counts increase, decrease, nochange
\* and nochanges of count_review_changes_by_type.
C30_ClassifiersAgree ==
    report # <<>> =>
        /\ report[1].filters.increase = report[1].paper.changes.increase
        /\ report[1].filters.decrease = report[1].paper.changes.decrease
        /\ report[1].filters.ratingnochange = report[1].paper.changes.nochange
        /\ report[1].filters.nochanges = report[1].paper.changes.nochanges
====
